---- MODULE Spec2Model ----
(***************************************************************************)
(* Model of the reconciliation engine of cpreconcile:                      *)
(*   src/src/services/reconciliation.service.ts  (ReconciliationService)   *)
(*   src/unnamed/part_000                        (Scheduler)               *)
(*   src/unnamed/part_009                        (reconciliation routes)   *)
(*   src/unnamed/part_010                        (server, gracefulShutdown)*)
(*   src/unnamed/part_003                        (EasyecomService)         *)
(*                                                                         *)
(* Units.  JavaScript numbers are modelled by exact integers:              *)
(*   - amounts are in hundredths (1.00 is 100), so "amountDifference < 1"  *)
(*     reads "< 100" and "amountDifference < 10" reads "< 1000";           *)
(*   - timestamps and Date.now() readings are whole hours / clock ticks;   *)
(*   - confidences are multiplied by ConfScale = 48, the least scale at    *)
(*     which 20 * (1 - h/24), 10 * (1 - h/48) and the mean of two such     *)
(*     values are integers for whole hours h.                              *)
(* A missing (null / undefined / empty) string is Null, a missing          *)
(* amountDifference is NoAmount, a null bestMatch is the list index 0.     *)
(***************************************************************************)
EXTENDS Integers, Sequences, FiniteSets, TLC

VARIABLES
    now,             \* the clock read by Date.now() and new Date()
    dbShopify,       \* rows returned by shopifyService.getLocalOrders
    dbRazorpay,      \* rows returned by razorpayService.getLocalPayments
    dbEasyecom,      \* rows returned by easyecomService.getLocalOrders
    logs,            \* table reconciliationLog, in insertion order (id = index)
    reconciliations, \* table reconciliation, in insertion order
    runs,            \* one record per reconcile() invocation: its locals and position
    process,         \* "running", then the stages of gracefulShutdown, then the exit code
    tasks,           \* number of cron tasks the scheduler holds (Scheduler.tasks.length)
    mOrder,          \* matcher harness: the anchor order
    mPayments,       \* matcher harness: candidate payments
    mEasyecom,       \* matcher harness: candidate Easyecom orders
    mResult,         \* matcher harness: <<>> or <<the MatchResult of findMatches>>
    authToken,       \* EasyecomService.authToken
    tokenExpiry,     \* EasyecomService.tokenExpiry
    fetches          \* one record per EasyecomService.fetchOrders call

vars == <<now, dbShopify, dbRazorpay, dbEasyecom, logs, reconciliations, runs,
          process, tasks, mOrder, mPayments, mEasyecom, mResult,
          authToken, tokenExpiry, fetches>>

runVars == <<now, dbShopify, dbRazorpay, dbEasyecom, logs, reconciliations, runs,
            process, tasks>>
matchVars == <<mOrder, mPayments, mEasyecom, mResult>>
fetchVars == <<authToken, tokenExpiry, fetches>>

-----------------------------------------------------------------------------
(* Bounds of the model. *)

MaxRuns == 2
MaxClock == 1
MaxCand == 2
\* a shutdown is followed while at most this many invocations of reconcile exist
MaxRunsAtShutdown == 1
\* calls of EasyecomService.fetchOrders
MaxFetches == 2

-----------------------------------------------------------------------------
(* Constants of the program, in model units. *)

ConfScale == 48

Null == ""
NoAmount == -1
\* a null tokenExpiry
NoExpiry == -1

MATCHED == "MATCHED"
PARTIAL_MATCH == "PARTIAL_MATCH"
UNMATCHED == "UNMATCHED"
DISCREPANCY == "DISCREPANCY"
UNDER_REVIEW == "UNDER_REVIEW"
RESOLVED == "RESOLVED"

ReconciliationStatus == {MATCHED, PARTIAL_MATCH, UNMATCHED, DISCREPANCY, UNDER_REVIEW, RESOLVED}

\* process.exit has been called
exited == process \in {"exit0", "exit1"}

Abs(x) == IF x < 0 THEN -x ELSE x

Max(a, b) == IF a >= b THEN a ELSE b

Min(a, b) == IF a <= b THEN a ELSE b

\* String.prototype.toLowerCase on the e-mail addresses of the model.
toLowerCase(s) ==
    CASE s = "A@x.com" -> "a@x.com"
      [] s = "B@x.com" -> "b@x.com"
      [] OTHER -> s

-----------------------------------------------------------------------------
(* The matcher: pure functions of ReconciliationService. *)

\* razorpayConfidence whose date term is not limited to the 24 hour window
razorpayConfidence_NoWindow(shopifyOrder, payment) ==
    LET emailPart ==
            IF /\ shopifyOrder.email # Null
               /\ payment.email # Null
               /\ toLowerCase(shopifyOrder.email) = toLowerCase(payment.email)
            THEN 40 * ConfScale ELSE 0
        amountDiff == Abs(shopifyOrder.totalPrice - payment.amount)
        amountPart == IF 100 * amountDiff <= shopifyOrder.totalPrice THEN 40 * ConfScale ELSE 0
        hoursDiff == Abs(shopifyOrder.createdAt - payment.createdAt)
        timePart == 20 * ConfScale - 40 * hoursDiff
    IN  emailPart + amountPart + timePart

\* confidence of one payment against the order (loop body of matchRazorpayPayment)
razorpayConfidence(shopifyOrder, payment) ==
    LET emailPart ==
            IF /\ shopifyOrder.email # Null
               /\ payment.email # Null
               /\ toLowerCase(shopifyOrder.email) = toLowerCase(payment.email)
            THEN 40 * ConfScale ELSE 0
        amountDiff == Abs(shopifyOrder.totalPrice - payment.amount)
        \* amountDiff <= totalPrice * 0.01
        amountPart == IF 100 * amountDiff <= shopifyOrder.totalPrice THEN 40 * ConfScale ELSE 0
        hoursDiff == Abs(shopifyOrder.createdAt - payment.createdAt)
        \* 20 * (1 - hoursDiff / 24)
        timePart == IF hoursDiff <= 24 THEN 20 * ConfScale - 40 * hoursDiff ELSE 0
    IN  emailPart + amountPart + timePart

\* razorpayLoop that also takes a candidate scoring as much as the best so far
razorpayLoop_AtLeast(shopifyOrder, razorpayPayments) ==
    LET best[n \in 0..Len(razorpayPayments)] ==
            IF n = 0 THEN <<0, 0>>
            ELSE LET confidence == razorpayConfidence(shopifyOrder, razorpayPayments[n])
                 IN  IF confidence >= best[n - 1][2] THEN <<n, confidence>> ELSE best[n - 1]
    IN  best[Len(razorpayPayments)]

\* the loop of matchRazorpayPayment: best[n] is <<index of bestMatch (0 is null),
\* bestConfidence>> after the first n payments
razorpayLoop(shopifyOrder, razorpayPayments) ==
    LET best[n \in 0..Len(razorpayPayments)] ==
            IF n = 0 THEN <<0, 0>>
            ELSE LET confidence == razorpayConfidence(shopifyOrder, razorpayPayments[n])
                 IN  IF confidence > best[n - 1][2] THEN <<n, confidence>> ELSE best[n - 1]
    IN  best[Len(razorpayPayments)]

bestOf(best) == [payment |-> best[1], confidence |-> best[2]]

matchRazorpayPayment(shopifyOrder, razorpayPayments) ==
    bestOf(razorpayLoop(shopifyOrder, razorpayPayments))

\* confidence of one Easyecom order against the order (loop body of matchEasyecomOrder)
easyecomConfidence(shopifyOrder, easyecomOrder) ==
    LET refPart ==
            IF /\ easyecomOrder.marketplaceOrderId # Null
               /\ \/ easyecomOrder.marketplaceOrderId = shopifyOrder.shopifyOrderId
                  \/ easyecomOrder.marketplaceOrderId = shopifyOrder.shopifyOrderNumber
            THEN 60 * ConfScale ELSE 0
        amountDiff == Abs(shopifyOrder.totalPrice - easyecomOrder.totalAmount)
        amountPart == IF 100 * amountDiff <= shopifyOrder.totalPrice THEN 30 * ConfScale ELSE 0
        hoursDiff == Abs(shopifyOrder.createdAt - easyecomOrder.createdAt)
        \* 10 * (1 - hoursDiff / 48)
        timePart == IF hoursDiff <= 48 THEN 10 * ConfScale - 10 * hoursDiff ELSE 0
    IN  refPart + amountPart + timePart

\* easyecomLoop that replaces the best so far by a later candidate scoring as much
easyecomLoop_AtLeast(shopifyOrder, easyecomOrders) ==
    LET best[n \in 0..Len(easyecomOrders)] ==
            IF n = 0 THEN <<0, 0>>
            ELSE LET confidence == easyecomConfidence(shopifyOrder, easyecomOrders[n])
                 IN  IF confidence >= best[n - 1][2] /\ confidence > 0
                     THEN <<n, confidence>> ELSE best[n - 1]
    IN  best[Len(easyecomOrders)]

easyecomLoop(shopifyOrder, easyecomOrders) ==
    LET best[n \in 0..Len(easyecomOrders)] ==
            IF n = 0 THEN <<0, 0>>
            ELSE LET confidence == easyecomConfidence(shopifyOrder, easyecomOrders[n])
                 IN  IF confidence > best[n - 1][2] THEN <<n, confidence>> ELSE best[n - 1]
    IN  best[Len(easyecomOrders)]

bestOrderOf(best) == [order |-> best[1], confidence |-> best[2]]

matchEasyecomOrder(shopifyOrder, easyecomOrders) ==
    bestOrderOf(easyecomLoop(shopifyOrder, easyecomOrders))

\* determineStatus with the MATCHED rule admitting a difference of exactly 1.00
determineStatus_MatchedAtOne(matchConfidence, amountDifference) ==
    IF matchConfidence >= 80 * ConfScale /\ amountDifference <= 100
    THEN <<MATCHED, <<>>>>
    ELSE IF matchConfidence >= 50 * ConfScale /\ amountDifference < 1000
    THEN <<PARTIAL_MATCH, <<"Partial match with", amountDifference, "amount difference">>>>
    ELSE IF amountDifference >= 1000
    THEN <<DISCREPANCY, <<"Significant amount difference:", amountDifference>>>>
    ELSE <<UNMATCHED, <<"Could not find confident matches">>>>

\* determineStatus with the DISCREPANCY rule applied only to confident matches
determineStatus_ConfidentDiscrepancy(matchConfidence, amountDifference) ==
    IF matchConfidence >= 80 * ConfScale /\ amountDifference < 100
    THEN <<MATCHED, <<>>>>
    ELSE IF matchConfidence >= 50 * ConfScale /\ amountDifference < 1000
    THEN <<PARTIAL_MATCH, <<"Partial match with", amountDifference, "amount difference">>>>
    ELSE IF amountDifference >= 1000 /\ matchConfidence >= 50 * ConfScale
    THEN <<DISCREPANCY, <<"Significant amount difference:", amountDifference>>>>
    ELSE <<UNMATCHED, <<"Could not find confident matches">>>>

\* determineStatus with the PARTIAL_MATCH rule also taking differences of 100.00 and more
determineStatus_PartialWhenFar(matchConfidence, amountDifference) ==
    IF matchConfidence >= 80 * ConfScale /\ amountDifference < 100
    THEN <<MATCHED, <<>>>>
    ELSE IF \/ matchConfidence >= 50 * ConfScale /\ amountDifference < 1000
            \/ amountDifference >= 10000
    THEN <<PARTIAL_MATCH, <<"Partial match with", amountDifference, "amount difference">>>>
    ELSE IF amountDifference >= 1000
    THEN <<DISCREPANCY, <<"Significant amount difference:", amountDifference>>>>
    ELSE <<UNMATCHED, <<"Could not find confident matches">>>>

\* determineStatus that leaves an UNMATCHED result without a note
determineStatus_SilentUnmatched(matchConfidence, amountDifference) ==
    IF matchConfidence >= 80 * ConfScale /\ amountDifference < 100
    THEN <<MATCHED, <<>>>>
    ELSE IF matchConfidence >= 50 * ConfScale /\ amountDifference < 1000
    THEN <<PARTIAL_MATCH, <<"Partial match with", amountDifference, "amount difference">>>>
    ELSE IF amountDifference >= 1000
    THEN <<DISCREPANCY, <<"Significant amount difference:", amountDifference>>>>
    ELSE <<UNMATCHED, <<>>>>

\* determineStatus that hands what it cannot match to manual review
determineStatus_UnderReview(matchConfidence, amountDifference) ==
    IF matchConfidence >= 80 * ConfScale /\ amountDifference < 100
    THEN <<MATCHED, <<>>>>
    ELSE IF matchConfidence >= 50 * ConfScale /\ amountDifference < 1000
    THEN <<PARTIAL_MATCH, <<"Partial match with", amountDifference, "amount difference">>>>
    ELSE IF amountDifference >= 1000
    THEN <<DISCREPANCY, <<"Significant amount difference:", amountDifference>>>>
    ELSE <<UNDER_REVIEW, <<"Could not find confident matches">>>>

\* "Determine status" of findMatches: <<status, discrepancyNotes>>.
\* A note is the sequence of its parts; toFixed(2) of an amount in hundredths
\* prints exactly that amount.
determineStatus(matchConfidence, amountDifference) ==
    IF matchConfidence >= 80 * ConfScale /\ amountDifference < 100
    THEN <<MATCHED, <<>>>>
    ELSE IF matchConfidence >= 50 * ConfScale /\ amountDifference < 1000
    THEN <<PARTIAL_MATCH, <<"Partial match with", amountDifference, "amount difference">>>>
    ELSE IF amountDifference >= 1000
    THEN <<DISCREPANCY, <<"Significant amount difference:", amountDifference>>>>
    ELSE <<UNMATCHED, <<"Could not find confident matches">>>>

\* lines 185-197: the status and note are set on the result
setStatus(result, verdict) ==
    [result EXCEPT !.status = verdict[1], !.discrepancyNotes = verdict[2]]

\* combineMatches that takes the larger of the two confidences, not their mean
combineMatches_Max(shopifyOrder, razorpayPayments, easyecomOrders, razorpayMatch, easyecomMatch) ==
    LET hasPayment == razorpayMatch.payment # 0
        hasOrder == easyecomMatch.order # 0
        matchConfidence == Max(IF hasPayment THEN razorpayMatch.confidence ELSE 0,
                               IF hasOrder THEN easyecomMatch.confidence ELSE 0)
        a0 == shopifyOrder.totalPrice
        a1 == IF hasPayment THEN razorpayPayments[razorpayMatch.payment].amount ELSE a0
        a2 == IF hasOrder THEN easyecomOrders[easyecomMatch.order].totalAmount ELSE a0
        amountDifference == Max(a0, Max(a1, a2)) - Min(a0, Min(a1, a2))
    IN  setStatus(
            [shopifyOrderId |-> shopifyOrder.id,
             razorpayPaymentId |->
                 IF hasPayment THEN razorpayPayments[razorpayMatch.payment].id ELSE Null,
             easyecomOrderId |->
                 IF hasOrder THEN easyecomOrders[easyecomMatch.order].id ELSE Null,
             matchConfidence |-> matchConfidence,
             status |-> UNMATCHED,
             amountDifference |-> amountDifference,
             discrepancyNotes |-> <<>>],
            determineStatus(matchConfidence, amountDifference))

\* lines 144-199 of findMatches, given the two best matches
combineMatches(shopifyOrder, razorpayPayments, easyecomOrders, razorpayMatch, easyecomMatch) ==
    LET hasPayment == razorpayMatch.payment # 0
        hasOrder == easyecomMatch.order # 0
        sum == (IF hasPayment THEN razorpayMatch.confidence ELSE 0)
               + (IF hasOrder THEN easyecomMatch.confidence ELSE 0)
        matchCount == (IF hasPayment THEN 1 ELSE 0) + (IF hasOrder THEN 1 ELSE 0)
        matchConfidence == IF matchCount > 0 THEN sum \div matchCount ELSE sum
        a0 == shopifyOrder.totalPrice
        a1 == IF hasPayment THEN razorpayPayments[razorpayMatch.payment].amount ELSE a0
        a2 == IF hasOrder THEN easyecomOrders[easyecomMatch.order].totalAmount ELSE a0
        amountDifference == Max(a0, Max(a1, a2)) - Min(a0, Min(a1, a2))
    IN  setStatus(
            [shopifyOrderId |-> shopifyOrder.id,
             razorpayPaymentId |->
                 IF hasPayment THEN razorpayPayments[razorpayMatch.payment].id ELSE Null,
             easyecomOrderId |->
                 IF hasOrder THEN easyecomOrders[easyecomMatch.order].id ELSE Null,
             matchConfidence |-> matchConfidence,
             status |-> UNMATCHED,
             amountDifference |-> amountDifference,
             discrepancyNotes |-> <<>>],
            determineStatus(matchConfidence, amountDifference))

findMatches(shopifyOrder, razorpayPayments, easyecomOrders) ==
    combineMatches(shopifyOrder, razorpayPayments, easyecomOrders,
                   matchRazorpayPayment(shopifyOrder, razorpayPayments),
                   matchEasyecomOrder(shopifyOrder, easyecomOrders))

-----------------------------------------------------------------------------
(* Record domains.  Every order of the model is created at hour T0, with    *)
(* amount 1000.00 or 0.00; candidates are created at or after T0, and one   *)
(* per source before T0 with amount 0.00.  The candidate lists of the       *)
(* matcher harness are in any order: a superset of the newest-first lists   *)
(* the loaders return.                                                      *)

T0 == 100

Orders ==
    [id : {"s1"}, shopifyOrderId : {"1001"}, shopifyOrderNumber : {"#1"},
     email : {"A@x.com", Null}, totalPrice : {100000, 0}, createdAt : {T0}]

Payments ==
    [id : {"r"}, email : {"a@x.com", "b@x.com", Null},
     amount : {100000, 100099, 100100, 101000, 110000},
     createdAt : {T0, T0 + 12, T0 + 24, T0 + 25}]
    \cup {[id |-> "r", email |-> "a@x.com", amount |-> 0, createdAt |-> T0 - 12]}

EasyecomOrders ==
    [id : {"e"}, marketplaceOrderId : {"1001", "#1", "9999", Null},
     totalAmount : {100000, 100500, 110000},
     createdAt : {T0, T0 + 48, T0 + 49}]
    \cup {[id |-> "e", marketplaceOrderId |-> "#1", totalAmount |-> 0, createdAt |-> T0 - 24]}

\* rows get distinct primary keys: the row at position i of a list has id prefix-i
KeyOf(prefix, i) ==
    CASE i = 1 -> IF prefix = "r" THEN "r1" ELSE IF prefix = "e" THEN "e1" ELSE "s1"
      [] i = 2 -> IF prefix = "r" THEN "r2" ELSE IF prefix = "e" THEN "e2" ELSE "s2"
      [] i = 3 -> IF prefix = "r" THEN "r3" ELSE IF prefix = "e" THEN "e3" ELSE "s3"
      [] OTHER -> IF prefix = "r" THEN "r4" ELSE IF prefix = "e" THEN "e4" ELSE "s4"

Keyed(prefix, rows) == [i \in 1..Len(rows) |-> [rows[i] EXCEPT !.id = KeyOf(prefix, i)]]

SeqsUpTo(S, n) == UNION {[1..k -> S] : k \in 0..n}

-----------------------------------------------------------------------------
(* The matcher harness: findMatches applied to bounded inputs. *)

MatchInit ==
    /\ mOrder \in Orders
    /\ \E k \in 0..MaxCand :
          /\ mPayments \in {Keyed("r", q) : q \in SeqsUpTo(Payments, k)}
          /\ mEasyecom \in {Keyed("e", q) : q \in SeqsUpTo(EasyecomOrders, MaxCand - k)}
    /\ mResult = <<>>
    /\ now = 0
    /\ dbShopify = <<>>
    /\ dbRazorpay = <<>>
    /\ dbEasyecom = <<>>
    /\ logs = <<>>
    /\ reconciliations = <<>>
    /\ runs = <<>>
    /\ process = "running"
    /\ tasks = 1
    /\ authToken = Null
    /\ tokenExpiry = NoExpiry
    /\ fetches = <<>>

FindMatches ==
    /\ mResult = <<>>
    /\ mResult' = <<findMatches(mOrder, mPayments, mEasyecom)>>
    /\ UNCHANGED <<mOrder, mPayments, mEasyecom>>
    /\ UNCHANGED <<runVars, fetchVars>>

MatchNext == FindMatches

SpecMatch == MatchInit /\ [][MatchNext]_vars

-----------------------------------------------------------------------------
(* The run: ReconciliationService.reconcile, one action per await.          *)

\* wall-clock hour of clock reading 0: later than every record of the model
Epoch == 2 * T0
\* config.reconciliation.lookbackDays, in hours
LookbackHours == 168

Sources == {"shopify", "razorpay", "easyecom"}

\* rows of the run-level model
OrderA ==
    [id |-> "s", shopifyOrderId |-> "1001", shopifyOrderNumber |-> "#1",
     email |-> "A@x.com", totalPrice |-> 100000, createdAt |-> T0]
OrderB ==
    [id |-> "s", shopifyOrderId |-> "1002", shopifyOrderNumber |-> "#2",
     email |-> "a@x.com", totalPrice |-> 100000, createdAt |-> T0]
\* scores 100 against OrderA and OrderB
PayExact == [id |-> "r", email |-> "a@x.com", amount |-> 100000, createdAt |-> T0]
\* an hour older than the orders: scores 19.17 against either, 100.00 away
PayFar == [id |-> "r", email |-> "b@x.com", amount |-> 110000, createdAt |-> T0 - 1]
\* scores 0 against either order
PayNone == [id |-> "r", email |-> "b@x.com", amount |-> 110000, createdAt |-> T0 - 25]
\* scores 100 against OrderA and 40 against OrderB
EasyRef == [id |-> "e", marketplaceOrderId |-> "1001", totalAmount |-> 100000, createdAt |-> T0]
\* scores 0 against either order
EasyNone == [id |-> "e", marketplaceOrderId |-> Null, totalAmount |-> 110000, createdAt |-> T0 - 49]

\* the contents of the three tables the runs of the model read
Datasets ==
    {<<<<OrderA, OrderB>>, <<PayExact>>, <<EasyRef>>>>,
     <<<<OrderA>>, <<PayFar, PayNone>>, <<EasyNone>>>>}

\* orderBy: { createdAt: 'desc' }
SortedDesc(rows) == \A i \in 1..Len(rows) - 1 : rows[i].createdAt >= rows[i + 1].createdAt

RECURSIVE FilterSeq(_, _, _)
FilterSeq(rows, lo, hi) ==
    IF rows = <<>> THEN <<>>
    ELSE LET rest == FilterSeq(Tail(rows), lo, hi)
         IN  IF Head(rows).createdAt >= lo /\ Head(rows).createdAt <= hi
             THEN <<Head(rows)>> \o rest ELSE rest

\* shopifyService.getLocalOrders: rows created in [startDate, endDate], newest first
getLocalOrders(startDate, endDate) == FilterSeq(dbShopify, startDate, endDate)

\* razorpayService.getLocalPayments
getLocalPayments(startDate, endDate) == FilterSeq(dbRazorpay, startDate, endDate)

\* easyecomService.getLocalOrders
getLocalEasyecomOrders(startDate, endDate) == FilterSeq(dbEasyecom, startDate, endDate)

\* matchLoop in which the order processed first takes the payments for itself
matchLoop_FirstTakesAll(shopifyOrders, razorpayPayments, easyecomOrders) ==
    [i \in 1..Len(shopifyOrders) |->
        findMatches(shopifyOrders[i], IF i = 1 THEN razorpayPayments ELSE <<>>,
                    easyecomOrders)]

\* lines 61-70: the outcome of every order, in loader order
matchLoop(shopifyOrders, razorpayPayments, easyecomOrders) ==
    [i \in 1..Len(shopifyOrders) |->
        findMatches(shopifyOrders[i], razorpayPayments, easyecomOrders)]

\* lines 73-84: one UNMATCHED outcome per payment no outcome references
RECURSIVE razorpayOrphans(_, _)
razorpayOrphans(razorpayPayments, matchedRazorpayIds) ==
    IF razorpayPayments = <<>> THEN <<>>
    ELSE LET payment == Head(razorpayPayments)
             rest == razorpayOrphans(Tail(razorpayPayments), matchedRazorpayIds)
         IN  IF payment.id \notin matchedRazorpayIds
             THEN <<[shopifyOrderId |-> Null, razorpayPaymentId |-> payment.id,
                     easyecomOrderId |-> Null, matchConfidence |-> 0,
                     status |-> UNMATCHED, amountDifference |-> NoAmount,
                     discrepancyNotes |-> <<"No matching Shopify order found">>]>> \o rest
             ELSE rest

\* lines 87-98: one UNMATCHED outcome per Easyecom order no outcome references
RECURSIVE easyecomOrphans(_, _)
easyecomOrphans(easyecomOrders, matchedEasyecomIds) ==
    IF easyecomOrders = <<>> THEN <<>>
    ELSE LET order == Head(easyecomOrders)
             rest == easyecomOrphans(Tail(easyecomOrders), matchedEasyecomIds)
         IN  IF order.id \notin matchedEasyecomIds
             THEN <<[shopifyOrderId |-> Null, razorpayPaymentId |-> Null,
                     easyecomOrderId |-> order.id, matchConfidence |-> 0,
                     status |-> UNMATCHED, amountDifference |-> NoAmount,
                     discrepancyNotes |-> <<"No matching Shopify order found">>]>> \o rest
             ELSE rest

\* new Set(matches.map(m => m.<field>).filter(Boolean))
IdSet(matches, field) ==
    {matches[i][field] : i \in 1..Len(matches)} \ {Null}

CountStatus(matches, statuses) ==
    Cardinality({i \in 1..Len(matches) : matches[i].status \in statuses})

\* addRazorpayOrphans that forgets which payments the outcomes reference
addRazorpayOrphans_All(matches, razorpayPayments) ==
    matches \o razorpayOrphans(razorpayPayments, {})

\* addRazorpayOrphans that also skips the payments a saved row references
addRazorpayOrphans_Unsaved(matches, razorpayPayments) ==
    matches \o razorpayOrphans(razorpayPayments,
                               IdSet(matches, "razorpayPaymentId")
                               \cup IdSet(reconciliations, "razorpayPaymentId"))

\* lines 73-84 appended to the matches so far
addRazorpayOrphans(matches, razorpayPayments) ==
    matches \o razorpayOrphans(razorpayPayments, IdSet(matches, "razorpayPaymentId"))

\* addEasyecomOrphans that forgets which Easyecom orders the outcomes reference
addEasyecomOrphans_All(matches, easyecomOrders) ==
    matches \o easyecomOrphans(easyecomOrders, {})

\* lines 87-98 appended to the matches so far
addEasyecomOrphans(matches, easyecomOrders) ==
    matches \o easyecomOrphans(easyecomOrders, IdSet(matches, "easyecomOrderId"))

\* tally that counts as unmatched only the outcomes with status UNMATCHED
tally_UnmatchedOnly(primary, matches) ==
    [matches |-> matches,
     matchedCount |-> CountStatus(primary, {MATCHED}),
     unmatchedCount |-> CountStatus(matches, {UNMATCHED})]

\* tally whose unmatched counter leaves out the orphans
tally_OrphansUncounted(primary, matches) ==
    [matches |-> matches,
     matchedCount |-> CountStatus(primary, {MATCHED}),
     unmatchedCount |-> Len(primary) - CountStatus(primary, {MATCHED})]

\* the counters of lines 57-58, 65-69, 82 and 96: a primary outcome counts as
\* matched when its status is MATCHED and as unmatched otherwise; every orphan
\* counts as unmatched
tally(primary, matches) ==
    [matches |-> matches,
     matchedCount |-> CountStatus(primary, {MATCHED}),
     unmatchedCount |-> (Len(primary) - CountStatus(primary, {MATCHED}))
                        + (Len(matches) - Len(primary))]

withOrphans(primary, razorpayPayments, easyecomOrders) ==
    tally(primary,
          addEasyecomOrphans(addRazorpayOrphans(primary, razorpayPayments), easyecomOrders))

\* lines 56-98: matches, matchedCount, unmatchedCount
computeMatches(shopifyOrders, razorpayPayments, easyecomOrders) ==
    withOrphans(matchLoop(shopifyOrders, razorpayPayments, easyecomOrders),
                razorpayPayments, easyecomOrders)

NoRun ==
    [caller |-> Null, runId |-> 0, startDate |-> 0, endDate |-> 0, pc |-> "create",
     logId |-> 0, synced |-> {}, shopifyOrders |-> <<>>, razorpayPayments |-> <<>>,
     easyecomOrders |-> <<>>, matches |-> <<>>, matchedCount |-> 0,
     unmatchedCount |-> 0, saved |-> 0, error |-> Null, thrown |-> Null]

Init ==
    /\ now = 0
    /\ \E d \in Datasets :
          /\ SortedDesc(d[1]) /\ SortedDesc(d[2]) /\ SortedDesc(d[3])
          /\ dbShopify = Keyed("s", d[1])
          /\ dbRazorpay = Keyed("r", d[2])
          /\ dbEasyecom = Keyed("e", d[3])
    /\ logs = <<>>
    /\ reconciliations = <<>>
    /\ runs = <<>>
    /\ process = "running"
    /\ tasks = 1
    /\ mOrder = <<>>
    /\ mPayments = <<>>
    /\ mEasyecom = <<>>
    /\ mResult = <<>>
    /\ authToken = Null
    /\ tokenExpiry = NoExpiry
    /\ fetches = <<>>

\* the clock advances
Tick ==
    /\ ~exited
    /\ now < MaxClock
    /\ now' = now + 1
    /\ UNCHANGED <<dbShopify, dbRazorpay, dbEasyecom, logs, reconciliations, runs>>
    /\ UNCHANGED <<process, tasks, mOrder, mPayments, mEasyecom, mResult>>
    /\ UNCHANGED fetchVars

\* reconcile(startDate, endDate) up to its first await: runId = `RUN_${Date.now()}`.
\* The record keeps who awaits the invocation: the cron callback or a request.
reconcile(startDate, endDate, caller) ==
    /\ ~exited
    /\ Len(runs) < (IF process = "running" THEN MaxRuns ELSE MaxRunsAtShutdown)
    /\ runs' = Append(runs, [NoRun EXCEPT !.caller = caller, !.runId = now,
                                          !.startDate = startDate, !.endDate = endDate])
    /\ UNCHANGED <<now, dbShopify, dbRazorpay, dbEasyecom, logs, reconciliations>>
    /\ UNCHANGED <<process, tasks, mOrder, mPayments, mEasyecom, mResult>>
    /\ UNCHANGED fetchVars

\* the cron callback of Scheduler.start, while the task is registered
CronTick ==
    /\ tasks > 0
    /\ reconcile(Epoch + now - LookbackHours, Epoch + now, "cron")

\* POST /api/reconciliation/run with startDate and endDate in the body: a range
\* from the hour of the orders on, or a range that ends before it starts.  The
\* server takes requests until server.close is called.
PostRunDates ==
    /\ process = "running"
    /\ \E range \in {<<T0, 2 * Epoch>>, <<2 * Epoch, 0>>} :
          reconcile(range[1], range[2], "post")

\* POST /api/reconciliation/run without dates: lookbackDays || config lookbackDays
PostRunLookback ==
    /\ process = "running"
    /\ reconcile(Epoch + now - LookbackHours, Epoch + now, "post")

\* prisma.reconciliationLog.create resolves
CreateLog(r) ==
    /\ runs[r].pc = "create"
    /\ logs' = Append(logs, [runId |-> runs[r].runId, startTime |-> now, endTime |-> -1,
                             status |-> "RUNNING", recordsProcessed |-> 0,
                             recordsMatched |-> 0, recordsUnmatched |-> 0,
                             errors |-> Null])
    /\ runs' = [runs EXCEPT ![r].logId = Len(logs) + 1, ![r].pc = "sync"]
    /\ UNCHANGED <<now, dbShopify, dbRazorpay, dbEasyecom, reconciliations>>
    /\ UNCHANGED <<process, tasks, mOrder, mPayments, mEasyecom, mResult>>
    /\ UNCHANGED fetchVars

\* an awaited call of the try block rejects: control passes to the catch block
Throw(r, at) ==
    /\ runs[r].pc = at
    /\ runs' = [runs EXCEPT ![r].pc = "catch", ![r].error = at]
    /\ UNCHANGED <<now, dbShopify, dbRazorpay, dbEasyecom, logs, reconciliations>>
    /\ UNCHANGED <<process, tasks, mOrder, mPayments, mEasyecom, mResult>>
    /\ UNCHANGED fetchVars

CreateLogFail(r) == Throw(r, "create")

\* SyncOk that goes on to load once any two syncs have resolved
SyncOk_AnyTwo(r, src) ==
    /\ runs[r].pc = "sync"
    /\ src \notin runs[r].synced
    /\ runs' = [runs EXCEPT ![r].synced = @ \cup {src},
                            ![r].pc = IF Cardinality(runs[r].synced \cup {src}) >= 2
                                      THEN "load" ELSE "sync"]
    /\ UNCHANGED <<now, dbShopify, dbRazorpay, dbEasyecom, logs, reconciliations>>
    /\ UNCHANGED <<process, tasks, mOrder, mPayments, mEasyecom, mResult>>
    /\ UNCHANGED fetchVars

\* one of the three syncs of Promise.all resolves
SyncOk(r, src) ==
    /\ runs[r].pc = "sync"
    /\ src \notin runs[r].synced
    /\ runs' = [runs EXCEPT ![r].synced = @ \cup {src},
                            ![r].pc = IF runs[r].synced \cup {src} = Sources THEN "load" ELSE "sync"]
    /\ UNCHANGED <<now, dbShopify, dbRazorpay, dbEasyecom, logs, reconciliations>>
    /\ UNCHANGED <<process, tasks, mOrder, mPayments, mEasyecom, mResult>>
    /\ UNCHANGED fetchVars

\* one of the three syncs rejects: Promise.all rejects
SyncFail(r, src) ==
    /\ src \notin runs[r].synced
    /\ Throw(r, "sync")

\* the three getLocal* calls resolve
Load(r) ==
    /\ runs[r].pc = "load"
    /\ runs' = [runs EXCEPT
          ![r].shopifyOrders = getLocalOrders(runs[r].startDate, runs[r].endDate),
          ![r].razorpayPayments = getLocalPayments(runs[r].startDate, runs[r].endDate),
          ![r].easyecomOrders = getLocalEasyecomOrders(runs[r].startDate, runs[r].endDate),
          ![r].pc = "match"]
    /\ UNCHANGED <<now, dbShopify, dbRazorpay, dbEasyecom, logs, reconciliations>>
    /\ UNCHANGED <<process, tasks, mOrder, mPayments, mEasyecom, mResult>>
    /\ UNCHANGED fetchVars

LoadFail(r) == Throw(r, "load")

\* lines 56-98: the matching loop and the two orphan loops
Match(r) ==
    /\ runs[r].pc = "match"
    /\ \E c \in {computeMatches(runs[r].shopifyOrders, runs[r].razorpayPayments,
                                 runs[r].easyecomOrders)} :
           runs' = [runs EXCEPT ![r].matches = c.matches,
                                ![r].matchedCount = c.matchedCount,
                                ![r].unmatchedCount = c.unmatchedCount,
                                ![r].pc = IF c.matches = <<>> THEN "finalize" ELSE "save"]
    /\ UNCHANGED <<now, dbShopify, dbRazorpay, dbEasyecom, logs, reconciliations>>
    /\ UNCHANGED <<process, tasks, mOrder, mPayments, mEasyecom, mResult>>
    /\ UNCHANGED fetchVars

\* saveReconciliation(match) resolves for the next match; the row records the
\* time of its creation, and (for the claims only) the invocation that wrote it
SaveOne(r) ==
    /\ runs[r].pc = "save"
    /\ \E match \in {runs[r].matches[runs[r].saved + 1]} :
           reconciliations' = Append(reconciliations,
               [shopifyOrderId |-> match.shopifyOrderId,
                razorpayPaymentId |-> match.razorpayPaymentId,
                easyecomOrderId |-> match.easyecomOrderId,
                status |-> match.status,
                matchConfidence |-> match.matchConfidence,
                amountDifference |-> match.amountDifference,
                discrepancyNotes |-> match.discrepancyNotes,
                reconciledAt |-> now,
                run |-> r])
    /\ runs' = [runs EXCEPT ![r].saved = @ + 1,
                            ![r].pc = IF runs[r].saved + 1 = Len(runs[r].matches)
                                      THEN "finalize" ELSE "save"]
    /\ UNCHANGED <<now, dbShopify, dbRazorpay, dbEasyecom, logs>>
    /\ UNCHANGED <<process, tasks, mOrder, mPayments, mEasyecom, mResult>>
    /\ UNCHANGED fetchVars

SaveFail(r) == Throw(r, "save")

\* prisma.reconciliationLog.update({ where: { id: logEntry.id } }) resolves
Finalize(r) ==
    /\ runs[r].pc = "finalize"
    /\ logs' = [logs EXCEPT ![runs[r].logId] =
                   [@ EXCEPT !.endTime = now, !.status = "COMPLETED",
                             !.recordsProcessed = Len(runs[r].matches),
                             !.recordsMatched = runs[r].matchedCount,
                             !.recordsUnmatched = runs[r].unmatchedCount]]
    /\ runs' = [runs EXCEPT ![r].pc = "returned"]
    /\ UNCHANGED <<now, dbShopify, dbRazorpay, dbEasyecom, reconciliations>>
    /\ UNCHANGED <<process, tasks, mOrder, mPayments, mEasyecom, mResult>>
    /\ UNCHANGED fetchVars

FinalizeFail(r) == Throw(r, "finalize")

\* a caller whose await of reconcile is not inside a try block: the rejection
\* is unhandled, and the unhandledRejection handler starts the shutdown
callerCatches_Unhandled(r) ==
    /\ tasks' = tasks
    /\ process' = IF process = "running" /\ Len(runs) <= MaxRunsAtShutdown
                  THEN "closing" ELSE process

\* the error reconcile throws arrives at its caller, the cron callback or the
\* handler of POST /run: both await reconcile inside try and only log (or
\* answer 500) in catch
callerCatches(r) ==
    /\ tasks' = tasks
    /\ process' = process

\* catch: prisma.reconciliationLog.updateMany({ where: { runId } }) resolves,
\* then the error is rethrown
Catch(r) ==
    /\ runs[r].pc = "catch"
    /\ logs' = [i \in 1..Len(logs) |->
                   IF logs[i].runId = runs[r].runId
                   THEN [logs[i] EXCEPT !.endTime = now, !.status = "FAILED",
                                        !.errors = runs[r].error]
                   ELSE logs[i]]
    /\ runs' = [runs EXCEPT ![r].pc = "threw", ![r].thrown = runs[r].error]
    /\ callerCatches(r)
    /\ UNCHANGED <<now, dbShopify, dbRazorpay, dbEasyecom, reconciliations>>
    /\ UNCHANGED <<matchVars, fetchVars>>

\* catch: updateMany itself rejects; its error leaves reconcile instead
CatchFail(r) ==
    /\ runs[r].pc = "catch"
    /\ runs' = [runs EXCEPT ![r].pc = "threw", ![r].thrown = "catch"]
    /\ callerCatches(r)
    /\ UNCHANGED <<now, dbShopify, dbRazorpay, dbEasyecom, logs, reconciliations>>
    /\ UNCHANGED <<matchVars, fetchVars>>

\* process.exit: every invocation of reconcile that has not left it stops where
\* it is, and its locals are gone with the process (the model keeps its caller,
\* runId and log id)
exitRuns ==
    [r \in 1..Len(runs) |->
        IF runs[r].pc \in {"returned", "threw"} THEN runs[r]
        ELSE [NoRun EXCEPT !.pc = "exited", !.caller = runs[r].caller,
                           !.runId = runs[r].runId, !.logId = runs[r].logId]]

\* a request of POST /api/reconciliation/run is still awaiting reconcile
requestOpen ==
    \E r \in 1..Len(runs) :
        runs[r].caller = "post" /\ runs[r].pc \notin {"returned", "threw"}

\* SIGTERM, SIGINT, uncaughtException or unhandledRejection: gracefulShutdown
\* calls server.close(callback) and arms the 10 s timer
gracefulShutdown ==
    /\ process = "running"
    /\ Len(runs) <= MaxRunsAtShutdown
    /\ process' = "closing"
    /\ UNCHANGED <<now, dbShopify, dbRazorpay, dbEasyecom, logs, reconciliations, runs, tasks>>
    /\ UNCHANGED <<matchVars, fetchVars>>

\* a server.close callback that leaves the scheduler running
serverClosed_NoStop ==
    /\ process = "closing"
    /\ ~requestOpen
    /\ process' = "disconnecting"
    /\ UNCHANGED <<now, dbShopify, dbRazorpay, dbEasyecom, logs, reconciliations, runs, tasks>>
    /\ UNCHANGED <<matchVars, fetchVars>>

\* the callback of server.close, once no connection is open: scheduler.stop()
\* (Scheduler.stop empties its tasks), then disconnectDatabase() is awaited
serverClosed ==
    /\ process = "closing"
    /\ ~requestOpen
    /\ tasks' = 0
    /\ process' = "disconnecting"
    /\ UNCHANGED <<now, dbShopify, dbRazorpay, dbEasyecom, logs, reconciliations, runs>>
    /\ UNCHANGED <<matchVars, fetchVars>>

\* disconnectDatabase() resolves: process.exit(0)
disconnected ==
    /\ process = "disconnecting"
    /\ process' = "exit0"
    /\ runs' = exitRuns
    /\ UNCHANGED <<now, dbShopify, dbRazorpay, dbEasyecom, logs, reconciliations, tasks>>
    /\ UNCHANGED <<matchVars, fetchVars>>

\* prisma.$disconnect() rejects: the callback's promise is rejected, and the
\* unhandledRejection handler calls gracefulShutdown again, which calls
\* server.close(callback) on the closed server
disconnectFailed ==
    /\ process = "disconnecting"
    /\ process' = "closing"
    /\ UNCHANGED <<now, dbShopify, dbRazorpay, dbEasyecom, logs, reconciliations, runs, tasks>>
    /\ UNCHANGED <<matchVars, fetchVars>>

\* the 10 s timer of gracefulShutdown fires: process.exit(1)
forceExit ==
    /\ process \in {"closing", "disconnecting"}
    /\ process' = "exit1"
    /\ runs' = exitRuns
    /\ UNCHANGED <<now, dbShopify, dbRazorpay, dbEasyecom, logs, reconciliations, tasks>>
    /\ UNCHANGED <<matchVars, fetchVars>>

\* every step but the start of an invocation of reconcile
Steps ==
    \/ Tick
    \/ gracefulShutdown
    \/ serverClosed
    \/ disconnected
    \/ disconnectFailed
    \/ forceExit
    \/ \E r \in 1..Len(runs) : CreateLog(r)
    \/ \E r \in 1..Len(runs) : CreateLogFail(r)
    \/ \E r \in 1..Len(runs) : \E src \in Sources : SyncOk(r, src)
    \/ \E r \in 1..Len(runs) : \E src \in Sources : SyncFail(r, src)
    \/ \E r \in 1..Len(runs) : Load(r)
    \/ \E r \in 1..Len(runs) : LoadFail(r)
    \/ \E r \in 1..Len(runs) : Match(r)
    \/ \E r \in 1..Len(runs) : SaveOne(r)
    \/ \E r \in 1..Len(runs) : SaveFail(r)
    \/ \E r \in 1..Len(runs) : Finalize(r)
    \/ \E r \in 1..Len(runs) : FinalizeFail(r)
    \/ \E r \in 1..Len(runs) : Catch(r)
    \/ \E r \in 1..Len(runs) : CatchFail(r)

Next ==
    \/ CronTick
    \/ PostRunDates
    \/ PostRunLookback
    \/ Steps

Spec == Init /\ [][Next]_vars

\* the awaited call invocation r waits for returns or throws
RunStep(r) ==
    \/ CreateLog(r) \/ CreateLogFail(r)
    \/ \E src \in Sources : SyncOk(r, src) \/ SyncFail(r, src)
    \/ Load(r) \/ LoadFail(r)
    \/ Match(r)
    \/ SaveOne(r) \/ SaveFail(r)
    \/ Finalize(r) \/ FinalizeFail(r)
    \/ Catch(r) \/ CatchFail(r)

\* the steps of Next with at most MaxRunsAtShutdown invocations of reconcile
NextShutdown ==
    \/ Len(runs) < MaxRunsAtShutdown /\ CronTick
    \/ Len(runs) < MaxRunsAtShutdown /\ PostRunDates
    \/ Len(runs) < MaxRunsAtShutdown /\ PostRunLookback
    \/ Steps

\* a timer that setTimeout has armed fires
SpecShutdown == Init /\ [][NextShutdown]_vars /\ WF_vars(forceExit)

\* every collaborator call eventually returns or throws
SpecLive == Spec /\ \A r \in 1..MaxRuns : WF_vars(r <= Len(runs) /\ RunStep(r))

-----------------------------------------------------------------------------
(* EasyecomService.fetchOrders, one action per await.  A call is at           *)
(*   "auth"   : authenticate() of the first getAuthHeaders is awaited          *)
(*   "get"    : the first client.get of the order list is awaited             *)
(*   "reauth" : authenticate() of the getAuthHeaders in catch is awaited      *)
(*   "retry"  : the client.get in catch is awaited                            *)
(*   "returned", "threw".                                                     *)
(* `requests` counts the order requests the call has issued, `failed` lists   *)
(* the errors it has met ("401", "500": an HTTP error of that status;         *)
(* "auth": the Error authenticate throws, which carries no response), and     *)
(* `thrown` is the error that left the call.                                  *)

\* hours a token lasts: 90 days
TokenLifetime == 90 * 24

\* statuses of a failed order request
Statuses == {"401", "500"}

NoFetch ==
    [pc |-> "auth", requests |-> 0, authentications |-> 0, failed |-> <<>>,
     thrown |-> Null]

\* the service before any call, or holding a token of an earlier call that
\* expires an hour from now or at the end of its 90 days
FetchInit ==
    /\ now = 0
    /\ \E cached \in {<<Null, NoExpiry>>, <<"token", 1>>, <<"token", TokenLifetime>>} :
          /\ authToken = cached[1]
          /\ tokenExpiry = cached[2]
    /\ fetches = <<>>
    /\ dbShopify = <<>>
    /\ dbRazorpay = <<>>
    /\ dbEasyecom = <<>>
    /\ logs = <<>>
    /\ reconciliations = <<>>
    /\ runs = <<>>
    /\ process = "running"
    /\ tasks = 1
    /\ mOrder = <<>>
    /\ mPayments = <<>>
    /\ mEasyecom = <<>>
    /\ mResult = <<>>

\* getValidToken: the condition under which the cached token is returned
tokenCached ==
    authToken # Null /\ tokenExpiry # NoExpiry /\ now < tokenExpiry

\* fetchOrders is called: getAuthHeaders returns the cached token and the order
\* request is issued, or authenticate() is awaited
fetchOrders ==
    /\ Len(fetches) < MaxFetches
    /\ fetches' = Append(fetches,
           IF tokenCached THEN [NoFetch EXCEPT !.pc = "get", !.requests = 1]
                          ELSE NoFetch)
    /\ UNCHANGED <<authToken, tokenExpiry>>
    /\ UNCHANGED <<runVars, matchVars>>

\* authenticate() resolves: the token and its expiry are cached, and the order
\* request that awaited it is issued
authenticate(f, from, to) ==
    /\ fetches[f].pc = from
    /\ authToken' = "token"
    /\ tokenExpiry' = now + TokenLifetime
    /\ fetches' = [fetches EXCEPT ![f].pc = to, ![f].requests = @ + 1,
                                  ![f].authentications = @ + 1]
    /\ UNCHANGED <<runVars, matchVars>>

\* an error leaves fetchOrders
throwError(f, error) ==
    /\ fetches' = [fetches EXCEPT ![f].pc = "threw",
                                  ![f].failed = Append(@, error),
                                  ![f].thrown = error]
    /\ UNCHANGED <<authToken, tokenExpiry>>
    /\ UNCHANGED <<runVars, matchVars>>

\* the orders of the response are returned
returnOrders(f, from) ==
    /\ fetches[f].pc = from
    /\ fetches' = [fetches EXCEPT ![f].pc = "returned"]
    /\ UNCHANGED <<authToken, tokenExpiry>>
    /\ UNCHANGED <<runVars, matchVars>>

\* line 178: authenticate() resolves
Authenticated(f) == authenticate(f, "auth", "get")

\* line 178: authenticate() throws.  The catch block finds no response on the
\* error and rethrows it.
AuthenticateFailed(f) ==
    /\ fetches[f].pc = "auth"
    /\ throwError(f, "auth")

\* line 179: the order request resolves
GetOk(f) == returnOrders(f, "get")

\* line 179: the order request rejects with an HTTP error.  On 401 with a token
\* cached the catch block clears the token and the expiry and calls
\* getAuthHeaders, whose getValidToken finds no token and awaits authenticate();
\* any other error is rethrown.
GetFailed(f, status) ==
    /\ fetches[f].pc = "get"
    /\ IF status = "401" /\ authToken # Null
       THEN /\ authToken' = Null
            /\ tokenExpiry' = NoExpiry
            /\ fetches' = [fetches EXCEPT ![f].pc = "reauth",
                                          ![f].failed = Append(@, status)]
            /\ UNCHANGED <<runVars, matchVars>>
       ELSE throwError(f, status)

\* line 202: authenticate() resolves
Reauthenticated(f) == authenticate(f, "reauth", "retry")

\* line 202: authenticate() throws inside the catch block
ReauthenticateFailed(f) ==
    /\ fetches[f].pc = "reauth"
    /\ throwError(f, "auth")

\* line 203: the second order request resolves
RetryOk(f) == returnOrders(f, "retry")

\* a second order request whose 401 is answered like the first one's
RetryFailed_Again(f, status) ==
    /\ fetches[f].pc = "retry"
    /\ IF status = "401" /\ authToken # Null
       THEN /\ authToken' = Null
            /\ tokenExpiry' = NoExpiry
            /\ fetches' = [fetches EXCEPT ![f].pc = "reauth",
                                          ![f].failed = Append(@, status)]
            /\ UNCHANGED <<runVars, matchVars>>
       ELSE throwError(f, status)

\* line 203: the second order request rejects inside the catch block
RetryFailed(f, status) ==
    /\ fetches[f].pc = "retry"
    /\ throwError(f, status)

FetchNext ==
    \/ Tick
    \/ fetchOrders
    \/ \E f \in 1..Len(fetches) : Authenticated(f)
    \/ \E f \in 1..Len(fetches) : AuthenticateFailed(f)
    \/ \E f \in 1..Len(fetches) : GetOk(f)
    \/ \E f \in 1..Len(fetches) : \E status \in Statuses : GetFailed(f, status)
    \/ \E f \in 1..Len(fetches) : Reauthenticated(f)
    \/ \E f \in 1..Len(fetches) : ReauthenticateFailed(f)
    \/ \E f \in 1..Len(fetches) : RetryOk(f)
    \/ \E f \in 1..Len(fetches) : \E status \in Statuses : RetryFailed(f, status)

SpecFetch == FetchInit /\ [][FetchNext]_vars

-----------------------------------------------------------------------------
(* getReport *)

\* getReport called without a runId
NoRunId == -1

RECURSIVE Reverse(_)
Reverse(rows) == IF rows = <<>> THEN <<>> ELSE Append(Reverse(Tail(rows)), Head(rows))

RECURSIVE RowsBetween(_, _, _)
RowsBetween(rows, lo, hi) ==
    IF rows = <<>> THEN <<>>
    ELSE IF Head(rows).reconciledAt >= lo /\ Head(rows).reconciledAt <= hi
         THEN <<Head(rows)>> \o RowsBetween(Tail(rows), lo, hi)
         ELSE RowsBetween(Tail(rows), lo, hi)

\* prisma.reconciliationLog.findFirst({ where: { runId } }): 0 when there is none
findFirstLog(runId) ==
    IF \E i \in 1..Len(logs) : logs[i].runId = runId
    THEN CHOOSE i \in 1..Len(logs) :
            /\ logs[i].runId = runId
            /\ \A j \in 1..(i - 1) : logs[j].runId # runId
    ELSE 0

\* lines 309-333: the rows findMany returns.  Rows are created in clock order,
\* so the table reversed is in the order of orderBy: { reconciledAt: 'desc' }
reportRows(runId, log) ==
    IF runId # NoRunId /\ log # 0
    THEN Reverse(RowsBetween(reconciliations, logs[log].startTime,
                             IF logs[log].endTime # -1 THEN logs[log].endTime ELSE now))
    ELSE Reverse(reconciliations)

\* lines 335-347
reportOf(rows) ==
    [summary |-> [total |-> Len(rows),
                  matched |-> CountStatus(rows, {MATCHED}),
                  partialMatch |-> CountStatus(rows, {PARTIAL_MATCH}),
                  unmatched |-> CountStatus(rows, {UNMATCHED}),
                  discrepancies |-> CountStatus(rows, {DISCREPANCY}),
                  underReview |-> CountStatus(rows, {UNDER_REVIEW})],
     reconciliations |-> rows]

getReport(runId) == reportOf(reportRows(runId, findFirstLog(runId)))

-----------------------------------------------------------------------------
(* Claims about runs, checked under Spec. *)

RunIxs == 1..Len(runs)

\* reconcile returned its runId
Returned(r) == runs[r].pc = "returned"

\* reconcile has left through its catch block
Threw(r) == runs[r].pc = "threw"

\* the process exited while the invocation was inside reconcile
Exited(r) == runs[r].pc = "exited"

\* the run created its log entry and has not left reconcile
InFlight(r) == runs[r].logId # 0 /\ ~Returned(r) /\ ~Threw(r) /\ ~Exited(r)

\* the rows of table reconciliation written by run r
RowsOf(r) == {i \in 1..Len(reconciliations) : reconciliations[i].run = r}

PrimaryIxs(matches) == {i \in 1..Len(matches) : matches[i].shopifyOrderId # Null}

\* C1: within one run no secondary record is referenced by more than one
\* outcome: of two orders that both score > 0 against the same payment (or the
\* same Easyecom order) only the one processed first carries its id
C1_FirstComeClaiming ==
    \A r \in RunIxs :
        \A i, j \in 1..Len(runs[r].matches) :
            i < j =>
                /\ \/ runs[r].matches[i].razorpayPaymentId = Null
                   \/ runs[r].matches[i].razorpayPaymentId # runs[r].matches[j].razorpayPaymentId
                /\ \/ runs[r].matches[i].easyecomOrderId = Null
                   \/ runs[r].matches[i].easyecomOrderId # runs[r].matches[j].easyecomOrderId

\* the run ended with its log entry FAILED
EndedFailed(r) ==
    /\ Threw(r)
    /\ runs[r].logId # 0
    /\ logs[runs[r].logId].status = "FAILED"

\* C2: a run that ended FAILED has no outcome in table reconciliation, and
\* getReport of its runId returns none of its outcomes
C2_AllOrNothing ==
    \A r \in RunIxs :
        EndedFailed(r) =>
            /\ RowsOf(r) = {}
            /\ \A k \in 1..Len(getReport(runs[r].runId).reconciliations) :
                  getReport(runs[r].runId).reconciliations[k].run # r

\* C3: an invocation with startDate >= endDate performs no I/O: it creates no
\* log entry, starts no sync and writes no outcome
C3_InvalidRangeRejected ==
    \A r \in RunIxs :
        runs[r].startDate >= runs[r].endDate =>
            /\ runs[r].logId = 0
            /\ runs[r].pc \in {"create", "exited"}
            /\ runs[r].synced = {}
            /\ RowsOf(r) = {}

Unreferenced(rows, matches, field) ==
    {i \in 1..Len(rows) :
        \A k \in PrimaryIxs(matches) : matches[k][field] # rows[i].id}

\* C4: conservation.  A run that returned produced, and saved, as many outcomes
\* as it loaded orders, plus the payments no order's outcome references, plus
\* the Easyecom orders no order's outcome references
C4_Conservation ==
    \A r \in RunIxs :
        Returned(r) =>
            /\ Len(runs[r].matches) =
                  Len(runs[r].shopifyOrders)
                  + Cardinality(Unreferenced(runs[r].razorpayPayments, runs[r].matches,
                                             "razorpayPaymentId"))
                  + Cardinality(Unreferenced(runs[r].easyecomOrders, runs[r].matches,
                                             "easyecomOrderId"))
            /\ Cardinality(RowsOf(r)) = Len(runs[r].matches)

\* C4 witness: a returned run with an order, a referenced payment and an orphan
C4_Witness ==
    \E r \in RunIxs :
        /\ Returned(r)
        /\ Len(runs[r].shopifyOrders) >= 1
        /\ \E k \in PrimaryIxs(runs[r].matches) : runs[r].matches[k].razorpayPaymentId # Null
        /\ Len(runs[r].matches) > Len(runs[r].shopifyOrders)

\* C5: when a sync of the run failed and the run has ended, its log entry is
\* FAILED, nothing was loaded or matched, and no outcome of the run exists
C5_SyncFailureAborts ==
    \A r \in RunIxs :
        (runs[r].error = "sync" /\ Threw(r)) =>
            /\ logs[runs[r].logId].status = "FAILED"
            /\ runs[r].shopifyOrders = <<>>
            /\ runs[r].razorpayPayments = <<>>
            /\ runs[r].easyecomOrders = <<>>
            /\ runs[r].matches = <<>>
            /\ RowsOf(r) = {}

\* C6: a log entry that is COMPLETED or FAILED keeps its status in every later
\* step of any run
C6_LogStateMachine ==
    [][\A i \in 1..Len(logs) :
          logs[i].status \in {"COMPLETED", "FAILED"} => logs'[i].status = logs[i].status]_vars

\* C7: at no time are two runs in flight with a RUNNING log entry
C7_Serialized ==
    \A r1, r2 \in RunIxs :
        (InFlight(r1) /\ InFlight(r2)) => r1 = r2

\* C8 as stated: in the log of a run that returned, recordsUnmatched counts the
\* outcomes with status UNMATCHED only
C8_UnmatchedOnly ==
    \A r \in RunIxs :
        Returned(r) =>
            logs[runs[r].logId].recordsUnmatched = CountStatus(runs[r].matches, {UNMATCHED})

\* C8 amended: in the log of a run that returned, recordsProcessed is the number
\* of outcomes of the run, recordsMatched the number with status MATCHED, and
\* recordsUnmatched the number with any other status (PARTIAL_MATCH and
\* DISCREPANCY outcomes are counted in recordsUnmatched)
C8_Summary ==
    \A r \in RunIxs :
        Returned(r) =>
            /\ logs[runs[r].logId].recordsProcessed = Len(runs[r].matches)
            /\ logs[runs[r].logId].recordsProcessed = Cardinality(RowsOf(r))
            /\ logs[runs[r].logId].recordsMatched = CountStatus(runs[r].matches, {MATCHED})
            /\ logs[runs[r].logId].recordsUnmatched =
                  CountStatus(runs[r].matches, {PARTIAL_MATCH, DISCREPANCY, UNMATCHED})

\* C8 witness: a returned run with a MATCHED, a PARTIAL_MATCH outcome
C8_Witness ==
    \E r \in RunIxs :
        /\ Returned(r)
        /\ CountStatus(runs[r].matches, {MATCHED}) > 0
        /\ CountStatus(runs[r].matches, {PARTIAL_MATCH, DISCREPANCY}) > 0

\* the run has computed its outcomes
HasMatched(r) ==
    \/ runs[r].pc \in {"save", "finalize", "returned"}
    \/ runs[r].error \in {"save", "finalize"}

\* an outcome without its row id and storage time
Outcome(m) ==
    <<m.shopifyOrderId, m.razorpayPaymentId, m.easyecomOrderId, m.matchConfidence,
      m.amountDifference, m.status, m.discrepancyNotes>>

OutcomeSet(matches) == {Outcome(matches[i]) : i \in 1..Len(matches)}

SavedOutcomes(r) == {Outcome(reconciliations[i]) : i \in RowsOf(r)}

SameLoaded(r1, r2) ==
    /\ runs[r1].shopifyOrders = runs[r2].shopifyOrders
    /\ runs[r1].razorpayPayments = runs[r2].razorpayPayments
    /\ runs[r1].easyecomOrders = runs[r2].easyecomOrders

C14_ReportExact ==
    \A r \in RunIxs :
        Returned(r) =>
            /\ \A k \in 1..Len(getReport(runs[r].runId).reconciliations) :
                  getReport(runs[r].runId).reconciliations[k].run = r
            /\ getReport(runs[r].runId).summary.total = Cardinality(RowsOf(r))

\* C15: when an awaited call failed after the log entry was created and
\* reconcile has ended, the log entry is FAILED with an error recorded and the
\* caller received that error; reconcile returns its runId only on the path
\* without error
C15_ErrorsMarkFailed ==
    \A r \in RunIxs :
        /\ (Threw(r) /\ runs[r].logId # 0) =>
              /\ logs[runs[r].logId].status = "FAILED"
              /\ logs[runs[r].logId].errors # Null
              /\ runs[r].thrown = runs[r].error
        /\ Returned(r) => runs[r].error = Null

\* invocation r exists and has created its log entry
LogCreated(r) == r <= Len(runs) /\ runs[r].logId # 0

LogTerminal(r) == LogCreated(r) /\ logs[runs[r].logId].status \in {"COMPLETED", "FAILED"}

\* C16: every run that created its RUNNING log entry eventually has that entry
\* COMPLETED or FAILED, whatever happens to it: a failing collaborator, a
\* failing catch block, or the process shutting down
C16_EventuallyTerminal ==
    \A r \in 1..MaxRuns : [](LogCreated(r) => <>LogTerminal(r))

\* C18: every outcome a run produced whose status is not MATCHED carries a
\* non-empty note, order outcomes and orphans alike, and so does every saved row
C18_NotesWhenNotMatched ==
    /\ \A r \in RunIxs :
          \A i \in 1..Len(runs[r].matches) :
              runs[r].matches[i].status # MATCHED => runs[r].matches[i].discrepancyNotes # <<>>
    /\ \A k \in 1..Len(reconciliations) :
          reconciliations[k].status # MATCHED => reconciliations[k].discrepancyNotes # <<>>

\* C18 witness: a returned run that saved an UNMATCHED outcome of an order, and a
\* returned run that saved a DISCREPANCY outcome and an orphan, all with notes
C18_Witness ==
    /\ \E k \in 1..Len(reconciliations) :
          /\ Returned(reconciliations[k].run)
          /\ reconciliations[k].shopifyOrderId # Null
          /\ reconciliations[k].status = UNMATCHED
          /\ reconciliations[k].discrepancyNotes # <<>>
    /\ \E k, j \in 1..Len(reconciliations) :
          /\ reconciliations[k].run = reconciliations[j].run
          /\ reconciliations[k].status = DISCREPANCY
          /\ reconciliations[k].discrepancyNotes # <<>>
          /\ reconciliations[j].shopifyOrderId = Null
          /\ reconciliations[j].discrepancyNotes # <<>>

\* C19: reconcile assigns only MATCHED, PARTIAL_MATCH, DISCREPANCY and UNMATCHED:
\* no outcome of a run and no saved row has status UNDER_REVIEW or RESOLVED
C19_EngineStatuses ==
    /\ \A r \in RunIxs :
          \A i \in 1..Len(runs[r].matches) :
              runs[r].matches[i].status \in {MATCHED, PARTIAL_MATCH, DISCREPANCY, UNMATCHED}
    /\ \A k \in 1..Len(reconciliations) :
          reconciliations[k].status \in {MATCHED, PARTIAL_MATCH, DISCREPANCY, UNMATCHED}

\* C19 witness: a returned run that saved a MATCHED and a PARTIAL_MATCH row
C19_Witness ==
    \E k, j \in 1..Len(reconciliations) :
        /\ reconciliations[k].run = reconciliations[j].run
        /\ Returned(reconciliations[k].run)
        /\ reconciliations[k].status = MATCHED
        /\ reconciliations[j].status = PARTIAL_MATCH

\* the run is past its syncs: it is loading, matching, saving or finalizing, it
\* returned, or it failed in one of those steps
PastSync(r) ==
    \/ runs[r].pc \in {"load", "match", "save", "finalize", "returned"}
    \/ runs[r].error \in {"load", "save", "finalize"}

\* C20: loading and matching begin only after all three syncs resolved.  A run
\* that is past its syncs, or holds loaded records or outcomes, has all three
\* syncs done; a run still syncing, or whose sync failed, has loaded nothing
C20_SyncBeforeMatch ==
    \A r \in RunIxs :
        ~Exited(r) =>
            /\ (\/ PastSync(r)
                \/ runs[r].shopifyOrders # <<>>
                \/ runs[r].razorpayPayments # <<>>
                \/ runs[r].easyecomOrders # <<>>
                \/ runs[r].matches # <<>>
                \/ RowsOf(r) # {}) => runs[r].synced = Sources
            /\ (runs[r].pc = "sync" \/ runs[r].error = "sync") =>
                  /\ runs[r].shopifyOrders = <<>>
                  /\ runs[r].matches = <<>>
                  /\ RowsOf(r) = {}

\* C20 witness: one run has matched after its three syncs, while in another
\* only the sync started last has resolved
C20_Witness ==
    \E r1, r2 \in RunIxs :
        /\ runs[r1].pc = "save"
        /\ runs[r1].synced = Sources
        /\ runs[r1].matches # <<>>
        /\ runs[r2].pc = "sync"
        /\ runs[r2].synced = {"easyecom"}

\* the orphan outcomes of a secondary record: no order, and its id in the field
OrphansOf(matches, field, id) ==
    {i \in 1..Len(matches) : matches[i].shopifyOrderId = Null /\ matches[i][field] = id}

\* an outcome of an order references the record
Referenced(matches, field, id) ==
    \E k \in PrimaryIxs(matches) : matches[k][field] = id

\* C21: orphan synthesis partitions the secondary records.  In a run that has
\* computed its outcomes, every loaded payment and every loaded Easyecom order
\* has exactly one orphan outcome, with status UNMATCHED, when no outcome of an
\* order references its id, and no orphan outcome when one does
C21_OrphanPartition ==
    \A r \in RunIxs :
        HasMatched(r) =>
            /\ \A i \in 1..Len(runs[r].razorpayPayments) :
                  /\ Cardinality(OrphansOf(runs[r].matches, "razorpayPaymentId",
                                            runs[r].razorpayPayments[i].id))
                     = IF Referenced(runs[r].matches, "razorpayPaymentId",
                                     runs[r].razorpayPayments[i].id) THEN 0 ELSE 1
                  /\ \A k \in OrphansOf(runs[r].matches, "razorpayPaymentId",
                                         runs[r].razorpayPayments[i].id) :
                        runs[r].matches[k].status = UNMATCHED
            /\ \A i \in 1..Len(runs[r].easyecomOrders) :
                  /\ Cardinality(OrphansOf(runs[r].matches, "easyecomOrderId",
                                            runs[r].easyecomOrders[i].id))
                     = IF Referenced(runs[r].matches, "easyecomOrderId",
                                     runs[r].easyecomOrders[i].id) THEN 0 ELSE 1
                  /\ \A k \in OrphansOf(runs[r].matches, "easyecomOrderId",
                                         runs[r].easyecomOrders[i].id) :
                        runs[r].matches[k].status = UNMATCHED

\* C21 witness: a run with one payment referenced by an order's outcome and
\* without orphan, and another payment with its orphan outcome
C21_Witness ==
    \E r \in RunIxs :
        /\ HasMatched(r)
        /\ \E i, j \in 1..Len(runs[r].razorpayPayments) :
              /\ Referenced(runs[r].matches, "razorpayPaymentId",
                            runs[r].razorpayPayments[i].id)
              /\ OrphansOf(runs[r].matches, "razorpayPaymentId",
                           runs[r].razorpayPayments[i].id) = {}
              /\ OrphansOf(runs[r].matches, "razorpayPaymentId",
                           runs[r].razorpayPayments[j].id) # {}

\* C22: in the outcomes of a run, an orphan of a payment and an orphan of an
\* Easyecom order carry different notes
C22_OrphanNotesDiffer ==
    \A r \in RunIxs :
        \A i, j \in 1..Len(runs[r].matches) :
            (/\ runs[r].matches[i].shopifyOrderId = Null
             /\ runs[r].matches[j].shopifyOrderId = Null
             /\ runs[r].matches[i].razorpayPaymentId # Null
             /\ runs[r].matches[j].easyecomOrderId # Null)
            => runs[r].matches[i].discrepancyNotes # runs[r].matches[j].discrepancyNotes

\* C24: distinct invocations of reconcile have distinct runIds, also when they
\* read the same clock value
C24_DistinctRunIds ==
    \A r1, r2 \in RunIxs :
        r1 # r2 => runs[r1].runId # runs[r2].runId

\* C25: in every COMPLETED log entry recordsMatched + recordsUnmatched =
\* recordsProcessed, and recordsProcessed is the number of rows its run saved
C25_CountsAddUp ==
    \A r \in RunIxs :
        (runs[r].logId # 0 /\ logs[runs[r].logId].status = "COMPLETED") =>
            /\ logs[runs[r].logId].recordsMatched + logs[runs[r].logId].recordsUnmatched
               = logs[runs[r].logId].recordsProcessed
            /\ logs[runs[r].logId].recordsProcessed = Cardinality(RowsOf(r))

\* C25 witness: a COMPLETED log entry of a run with orphans: three records
\* processed, none matched
C25_Witness ==
    \E i \in 1..Len(logs) :
        /\ logs[i].status = "COMPLETED"
        /\ logs[i].recordsProcessed = 3
        /\ logs[i].recordsMatched = 0
        /\ logs[i].recordsUnmatched = 3

\* the list in the order given by the permutation p of its indexes
Permuted(rows, p) == [i \in 1..Len(rows) |-> rows[p[i]]]

\* C26: the outcomes of a run do not depend on the order in which the orders are
\* processed.  For every permutation of the orders a run loaded, matching the
\* permuted list against the same payments and Easyecom orders gives the same
\* set of outcomes, orphans included, as the run computed
C26_OrderInvariant ==
    \A r \in RunIxs :
        HasMatched(r) =>
            \A p \in Permutations(1..Len(runs[r].shopifyOrders)) :
                OutcomeSet(computeMatches(Permuted(runs[r].shopifyOrders, p),
                                          runs[r].razorpayPayments,
                                          runs[r].easyecomOrders).matches)
                = OutcomeSet(runs[r].matches)

\* C26 witness: a run over two orders with different outcomes, both referencing
\* the same payment
C26_Witness ==
    \E r \in RunIxs :
        /\ HasMatched(r)
        /\ Len(runs[r].shopifyOrders) = 2
        /\ runs[r].matches[1].status # runs[r].matches[2].status
        /\ runs[r].matches[1].razorpayPaymentId = runs[r].matches[2].razorpayPaymentId
        /\ runs[r].matches[1].razorpayPaymentId # Null

-----------------------------------------------------------------------------
(* Claims about the matcher, checked under SpecMatch. *)

mDone == mResult # <<>>
mRes == mResult[1]

\* C9: the classifier is the cascade, first matching rule wins:
\* MATCHED exactly when confidence >= 80 and difference < 1; otherwise
\* PARTIAL_MATCH exactly when confidence >= 50 and difference < 10; otherwise
\* DISCREPANCY exactly when difference >= 10; otherwise UNMATCHED.  So confidence
\* 80 with difference 0.99 is MATCHED, a difference >= 1.00 is never MATCHED and
\* confidence >= 80 with difference >= 10 is DISCREPANCY.
C9_Cascade ==
    mDone =>
        LET c == mRes.matchConfidence
            d == mRes.amountDifference
            rule1 == c >= 80 * ConfScale /\ d < 100
            rule2 == c >= 50 * ConfScale /\ d < 1000
            rule3 == d >= 1000
        IN  /\ rule1 => mRes.status = MATCHED
            /\ (~rule1 /\ rule2) => mRes.status = PARTIAL_MATCH
            /\ (~rule1 /\ ~rule2 /\ rule3) => mRes.status = DISCREPANCY
            /\ (~rule1 /\ ~rule2 /\ ~rule3) => mRes.status = UNMATCHED
            /\ (c = 80 * ConfScale /\ d = 99) => mRes.status = MATCHED
            /\ d >= 100 => mRes.status # MATCHED
            /\ (c >= 80 * ConfScale /\ d >= 1000) => mRes.status = DISCREPANCY

\* C9 witness: confidence exactly 80 with difference exactly 0.99, classified MATCHED
C9_Witness ==
    /\ mDone
    /\ mRes.matchConfidence = 80 * ConfScale
    /\ mRes.amountDifference = 99
    /\ mRes.status = MATCHED

\* Scenario B: the order of amount 1000.00 against a single payment of amount
\* 1100.00 whose e-mail gives no identity signal, and no Easyecom order
ScenarioB ==
    /\ mDone
    /\ Len(mPayments) = 1
    /\ Len(mEasyecom) = 0
    /\ mOrder.totalPrice = 100000
    /\ mPayments[1].amount = 110000
    /\ \/ mOrder.email = Null
       \/ mPayments[1].email = Null
       \/ toLowerCase(mOrder.email) # toLowerCase(mPayments[1].email)

ScenarioBHours == Abs(mOrder.createdAt - mPayments[1].createdAt)

\* C10 as stated: Scenario B yields an outcome with status UNMATCHED, also when a
\* small temporal contribution is left
C10_ScenarioB_Unmatched ==
    (ScenarioB /\ ScenarioBHours < 24) => mRes.status = UNMATCHED

\* C10 amended: in Scenario B a payment less than 24 hours from the order has a
\* positive score, is selected, and the outcome is DISCREPANCY with difference
\* 100.00; the outcome is UNMATCHED, with no payment, only at 24 hours or more
C10_ScenarioB ==
    ScenarioB =>
        IF ScenarioBHours < 24
        THEN /\ mRes.status = DISCREPANCY
             /\ mRes.razorpayPaymentId = mPayments[1].id
             /\ mRes.amountDifference = 10000
             /\ mRes.matchConfidence > 0
             /\ mRes.matchConfidence <= 20 * ConfScale
        ELSE /\ mRes.status = UNMATCHED
             /\ mRes.razorpayPaymentId = Null
             /\ mRes.matchConfidence = 0

\* C10 witness: Scenario B with a temporal contribution, classified DISCREPANCY
C10_Witness ==
    /\ ScenarioB
    /\ ScenarioBHours < 24
    /\ mRes.status = DISCREPANCY

\* the scores of the candidates of the harness against its order
paymentScore(i) == razorpayConfidence(mOrder, mPayments[i])
easyecomScore(i) == easyecomConfidence(mOrder, mEasyecom[i])

\* C11: no-match floor.  For either secondary source a candidate whose score is
\* exactly 0 is never the selected match, even when it is the only candidate;
\* when every candidate scores 0 the selector returns (null, 0) and the outcome
\* carries no id for that source
C11_NoMatchFloor ==
    mDone =>
        /\ \A i \in 1..Len(mPayments) :
              paymentScore(i) = 0 =>
                  /\ matchRazorpayPayment(mOrder, mPayments).payment # i
                  /\ mRes.razorpayPaymentId # mPayments[i].id
        /\ (\A i \in 1..Len(mPayments) : paymentScore(i) = 0) =>
              /\ matchRazorpayPayment(mOrder, mPayments) = [payment |-> 0, confidence |-> 0]
              /\ mRes.razorpayPaymentId = Null
        /\ \A i \in 1..Len(mEasyecom) :
              easyecomScore(i) = 0 =>
                  /\ matchEasyecomOrder(mOrder, mEasyecom).order # i
                  /\ mRes.easyecomOrderId # mEasyecom[i].id
        /\ (\A i \in 1..Len(mEasyecom) : easyecomScore(i) = 0) =>
              /\ matchEasyecomOrder(mOrder, mEasyecom) = [order |-> 0, confidence |-> 0]
              /\ mRes.easyecomOrderId = Null

\* C11 witness: a single payment and a single Easyecom order, both scoring 0,
\* and an outcome that references neither
C11_Witness ==
    /\ mDone
    /\ Len(mPayments) = 1
    /\ Len(mEasyecom) = 1
    /\ paymentScore(1) = 0
    /\ easyecomScore(1) = 0
    /\ mRes.razorpayPaymentId = Null
    /\ mRes.easyecomOrderId = Null

\* amount differences around the thresholds 1.00 and 10.00 of the classifier
AmountDifferences == {0, 1, 99, 100, 101, 999, 1000, 1001, 10000, 100000}

\* C13: classification is monotone in the amount difference.  At the confidence
\* c of any outcome and for differences d1 < d2 (the outcome's own difference
\* among the values of d1): when the classifier gives UNMATCHED or DISCREPANCY at
\* (c, d1), it gives neither MATCHED nor PARTIAL_MATCH at (c, d2)
C13_Monotone ==
    mDone =>
        \A d1 \in AmountDifferences \cup {mRes.amountDifference} :
            \A d2 \in AmountDifferences :
                (/\ d1 < d2
                 /\ determineStatus(mRes.matchConfidence, d1)[1] \in {UNMATCHED, DISCREPANCY})
                => determineStatus(mRes.matchConfidence, d2)[1] \notin {MATCHED, PARTIAL_MATCH}

\* C13 witness: a DISCREPANCY at confidence 100 and difference exactly 10.00
C13_Witness ==
    /\ mDone
    /\ mRes.status = DISCREPANCY
    /\ mRes.matchConfidence = 100 * ConfScale
    /\ mRes.amountDifference = 1000
    /\ \E d2 \in AmountDifferences : d2 > mRes.amountDifference

Confidences == 0..(100 * ConfScale)

\* C17: every score of a candidate of either source against the order lies in
\* [0, 100], and the outcome's matchConfidence is the mean of the confidences of
\* the sources that matched (0 when none did), so it lies in [0, 100] too
C17_ScoreRange ==
    mDone =>
        /\ \A i \in 1..Len(mPayments) : paymentScore(i) \in Confidences
        /\ \A i \in 1..Len(mEasyecom) : easyecomScore(i) \in Confidences
        /\ mRes.matchConfidence \in Confidences
        /\ (mRes.razorpayPaymentId = Null /\ mRes.easyecomOrderId = Null) =>
              mRes.matchConfidence = 0
        /\ (mRes.razorpayPaymentId # Null /\ mRes.easyecomOrderId = Null) =>
              mRes.matchConfidence = matchRazorpayPayment(mOrder, mPayments).confidence
        /\ (mRes.razorpayPaymentId = Null /\ mRes.easyecomOrderId # Null) =>
              mRes.matchConfidence = matchEasyecomOrder(mOrder, mEasyecom).confidence
        /\ (mRes.razorpayPaymentId # Null /\ mRes.easyecomOrderId # Null) =>
              2 * mRes.matchConfidence =
                  matchRazorpayPayment(mOrder, mPayments).confidence
                  + matchEasyecomOrder(mOrder, mEasyecom).confidence

\* C17 witness: an order of amount 0.00 whose payment and Easyecom order both
\* matched, the payment with score 90 (created 12 hours before the order)
C17_Witness ==
    /\ mDone
    /\ mOrder.totalPrice = 0
    /\ mRes.razorpayPaymentId # Null
    /\ mRes.easyecomOrderId # Null
    /\ Len(mPayments) = 1
    /\ mPayments[1].createdAt < mOrder.createdAt
    /\ paymentScore(1) = 90 * ConfScale
    /\ mRes.matchConfidence \in Confidences

\* C23: best-match selection is stable.  For either source the selected
\* candidate has the maximum score of its list, every candidate before it scores
\* strictly less, the returned confidence is its score, and the outcome carries
\* its id
C23_StableBestMatch ==
    mDone =>
        /\ \E sel \in {matchRazorpayPayment(mOrder, mPayments).payment} :
              sel # 0 =>
                  /\ \A i \in 1..Len(mPayments) : paymentScore(i) <= paymentScore(sel)
                  /\ \A i \in 1..(sel - 1) : paymentScore(i) < paymentScore(sel)
                  /\ matchRazorpayPayment(mOrder, mPayments).confidence = paymentScore(sel)
                  /\ mRes.razorpayPaymentId = mPayments[sel].id
        /\ \E sel \in {matchEasyecomOrder(mOrder, mEasyecom).order} :
              sel # 0 =>
                  /\ \A i \in 1..Len(mEasyecom) : easyecomScore(i) <= easyecomScore(sel)
                  /\ \A i \in 1..(sel - 1) : easyecomScore(i) < easyecomScore(sel)
                  /\ matchEasyecomOrder(mOrder, mEasyecom).confidence = easyecomScore(sel)
                  /\ mRes.easyecomOrderId = mEasyecom[sel].id

\* C23 witness: two Easyecom orders with the same positive score, different
\* contents, and the first one selected
C23_Witness ==
    /\ mDone
    /\ Len(mEasyecom) = 2
    /\ mEasyecom[1].marketplaceOrderId # mEasyecom[2].marketplaceOrderId
    /\ easyecomScore(1) > 0
    /\ easyecomScore(1) = easyecomScore(2)
    /\ mRes.easyecomOrderId = mEasyecom[1].id

\* the order is MATCHED by its payments alone: findMatches with no Easyecom
\* order gives MATCHED (payment confidence >= 80, amount difference < 1.00)
PaymentOnlyMatched ==
    /\ mDone
    /\ findMatches(mOrder, mPayments, <<>>).status = MATCHED

\* C27 as stated: an order that is MATCHED by its payments alone is MATCHED for
\* every content of the Easyecom list
C27_NoDowngrade ==
    PaymentOnlyMatched => mRes.status = MATCHED

\* C27 amended: an order that is MATCHED by its payments alone stays MATCHED
\* exactly when no Easyecom order is selected (the list is empty or every score
\* is 0), or the selected Easyecom order keeps the mean of the two confidences
\* at 80 or more and the spread of the three amounts below 1.00; any other
\* selected Easyecom order downgrades the outcome
C27_DowngradeByMean ==
    PaymentOnlyMatched =>
        (mRes.status = MATCHED
         <=> \/ mRes.easyecomOrderId = Null
             \/ /\ matchRazorpayPayment(mOrder, mPayments).confidence
                   + matchEasyecomOrder(mOrder, mEasyecom).confidence >= 160 * ConfScale
                /\ mRes.amountDifference < 100)

\* C27 witness: an order MATCHED by its payment alone whose outcome, with an
\* Easyecom order of the same amount selected, is not MATCHED
C27_Witness ==
    /\ PaymentOnlyMatched
    /\ mRes.easyecomOrderId # Null
    /\ mRes.amountDifference = 0
    /\ mRes.status # MATCHED


-----------------------------------------------------------------------------
(* the scheduler and the shutdown *)

\* a scheduled invocation whose error has reached the cron callback
CronFailed(r) == runs[r].caller = "cron" /\ Threw(r)

\* C28: a failed scheduled reconciliation does not stop the scheduler.  The
\* step in which the error of a scheduled invocation reaches the cron callback
\* changes neither the registered task nor the state of the process, and once
\* a scheduled invocation has failed the task is still registered for as long
\* as the shutdown has not called stop(): the cron tick stays possible.
C28_SchedulerSurvives ==
    /\ [](\A r \in RunIxs :
             CronFailed(r) /\ process = "running" => tasks = 1)
    /\ [][\A r \in 1..Len(runs) :
             runs[r].caller = "cron" /\ runs[r].pc = "catch" /\ runs'[r].pc = "threw"
                => tasks' = tasks /\ process' = process]_vars

\* the first scheduled invocation failed, its log entry says FAILED, and a
\* later cron tick has invoked reconcile again
C28_Witness ==
    /\ Len(runs) = 2
    /\ CronFailed(1)
    /\ runs[1].logId > 0
    /\ logs[runs[1].logId].status = "FAILED"
    /\ runs[2].caller = "cron"
    /\ runs[2].runId > runs[1].runId
    /\ process = "running"
    /\ tasks = 1


\* C30: after a shutdown signal the process always eventually exits.  It exits
\* with code 0 only from the awaited disconnect, which begins only in the
\* callback of server.close (no request open) after that callback has stopped
\* the scheduler; nothing else stops the scheduler; and it exits with code 1
\* only while a shutdown is under way, when the timer fires.
C30_ShutdownExits ==
    /\ (process # "running") ~> exited
    /\ [][/\ process' = "exit0" /\ process # "exit0"
              => process = "disconnecting" /\ tasks = 0
          /\ process' = "disconnecting" /\ process # "disconnecting"
              => process = "closing" /\ ~requestOpen /\ tasks' = 0
          /\ tasks' # tasks
              => process = "closing" /\ process' = "disconnecting"
          /\ process' = "exit1" /\ process # "exit1"
              => process \in {"closing", "disconnecting"}]_vars

\* the process has exited with code 0, the scheduler stopped, while a scheduled
\* invocation of reconcile was still under way
C30_Witness ==
    /\ process = "exit0"
    /\ tasks = 0
    /\ Len(runs) = 1
    /\ runs[1].caller = "cron"
    /\ runs[1].pc = "exited"


-----------------------------------------------------------------------------
(* EasyecomService.fetchOrders *)

FetchIxs == 1..Len(fetches)

\* the errors call f has met
Failed(f) == fetches[f].failed

====
